---- MODULE Spec2Model ----
(***************************************************************************)
(* Model of the bvarint codec (src/src/lib.rs): write_bvarint encodes a    *)
(* u64 into 1..9 bytes, read_bvarint decodes it.                           *)
(*                                                                         *)
(* A u64 does not fit a TLC integer, so a u64 is a sequence of four 16-bit *)
(* limbs, least-significant limb first.  Byte arrays are sequences of      *)
(* 0..255, indexed from 1 (the source's a[i] is a[i+1] here).              *)
(***************************************************************************)
EXTENDS Integers, Sequences, FiniteSets, TLC

\* ------------------------------------------------------------------ bounds
\* radius of the neighbourhood taken around every tier / width boundary
Delta == 1
\* number of successful write_bvarint calls into one buffer
MaxWrites == 2
\* number of bytes following the leading byte in an arbitrary source
MaxPayload == 8

\* ------------------------------------------------------- u64 arithmetic
Limb == 65536

Zero == <<0, 0, 0, 0>>

\* u64::MAX
U64Max == <<Limb - 1, Limb - 1, Limb - 1, Limb - 1>>

\* integer literal / `as u64` of a value below 2^31
U64FromInt(n) == <<n % Limb, (n \div Limb) % Limb, 0, 0>>

\* the integer held by a u64 known to lie below 2^31
ToInt(v) == v[1] + v[2] * Limb

\* 256^k as a u64, k in 0..7
Pow256(k) == [j \in 1..4 |-> IF j = (k \div 2) + 1 THEN (IF k % 2 = 0 THEN 1 ELSE 256) ELSE 0]

\* v + d modulo 2^64 for a small (possibly negative) integer d
WrappingAdd(v, d) ==
    LET s1 == v[1] + d
        s2 == v[2] + (s1 \div Limb)
        s3 == v[3] + (s2 \div Limb)
        s4 == v[4] + (s3 \div Limb)
    IN  <<s1 % Limb, s2 % Limb, s3 % Limb, s4 % Limb>>

\* u64::cmp: -1 (Less), 0 (Equal), 1 (Greater)
Cmp(x, y) ==
    IF x[4] # y[4] THEN (IF x[4] < y[4] THEN -1 ELSE 1)
    ELSE IF x[3] # y[3] THEN (IF x[3] < y[3] THEN -1 ELSE 1)
    ELSE IF x[2] # y[2] THEN (IF x[2] < y[2] THEN -1 ELSE 1)
    ELSE IF x[1] # y[1] THEN (IF x[1] < y[1] THEN -1 ELSE 1)
    ELSE 0

\* range pattern lo..=hi of a match arm
InRange(v, lo, hi) == Cmp(lo, v) <= 0 /\ Cmp(v, hi) <= 0

RECURSIVE BitLen(_)
\* number of significant bits of a limb
BitLen(n) == IF n = 0 THEN 0 ELSE 1 + BitLen(n \div 2)

\* u64::leading_zeros
leading_zeros(v) ==
    IF v[4] # 0 THEN 16 - BitLen(v[4])
    ELSE IF v[3] # 0 THEN 32 - BitLen(v[3])
    ELSE IF v[2] # 0 THEN 48 - BitLen(v[2])
    ELSE 64 - BitLen(v[1])

\* u64::to_be_bytes: the 8 bytes of v, most significant first
to_be_bytes(v) ==
    [i \in 1..8 |->
        LET limb == v[4 - ((i - 1) \div 2)]
        IN  IF i % 2 = 1 THEN limb \div 256 ELSE limb % 256]

\* u64::from_be_bytes
from_be_bytes(a) ==
    [j \in 1..4 |-> a[9 - 2 * j] * 256 + a[10 - 2 * j]]

\* Vec<u8>::cmp / slice cmp: lexicographic comparison of byte sequences
RECURSIVE LexCmp(_, _)
LexCmp(s, t) ==
    IF s = <<>> THEN (IF t = <<>> THEN 0 ELSE -1)
    ELSE IF t = <<>> THEN 1
    ELSE IF s[1] # t[1] THEN (IF s[1] < t[1] THEN -1 ELSE 1)
    ELSE LexCmp(Tail(s), Tail(t))

\* ------------------------------------------------------------- encoder
\* io::Write::write_all on a sink that accepts `budget` more bytes before it
\* returns an error: all of `bytes` is appended, or a proper prefix of it is
\* and the call fails.
write_all(w, bytes, budget) ==
    IF budget >= Len(bytes)
    THEN [w |-> w \o bytes, ok |-> TRUE, budget |-> budget - Len(bytes)]
    ELSE [w |-> w \o SubSeq(bytes, 1, budget), ok |-> FALSE, budget |-> 0]

\* the second write_all runs although the first one failed; the error is
\* returned afterwards
ThenIgnoringError(r, bytes) ==
    LET r2 == write_all(r.w, bytes, IF r.ok THEN r.budget ELSE Len(bytes))
    IN  [r2 EXCEPT !.ok = r.ok /\ r2.ok]

\* the `?` after the first write_all: the second runs only if the first
\* returned Ok
Then(r, bytes) ==
    IF r.ok THEN write_all(r.w, bytes, r.budget) ELSE r

\* width taken as 8 whenever the low byte of v is non-zero
widthOfLowByte(v) ==
    IF v[1] % 256 # 0 THEN 8 ELSE (64 + 8 - 1 - leading_zeros(v)) \div 8

\* minimal big-endian byte width of v
width(v) == (64 + 8 - 1 - leading_zeros(v)) \div 8

\* leading byte of the general form shifted by one
GeneralLeadOffByOne(wd) == (249 - 3 + wd + 1) % 256

\* leading byte of the general form
GeneralLead(wd) == (249 - 3 + wd) % 256

\* payload in little-endian order
GeneralPayloadLE(v, wd) == [i \in 1..wd |-> to_be_bytes(v)[9 - i]]

\* &a[(8 - width)..]
GeneralPayload(v, wd) == SubSeq(to_be_bytes(v), 8 - wd + 1, 8)

\* 2-byte form with its two bytes in the opposite order
Tier2BytesLowFirst(d) == <<d % 256, ((d \div 256) + 241) % 256>>

\* [((v >> 8) + 0xf1) as u8, v as u8] with v = v - 0xf0
Tier2Bytes(d) == <<((d \div 256) + 241) % 256, d % 256>>

\* 3-byte form with the two payload bytes swapped
Tier3BytesSwapped(d) == <<248, d % 256, (d \div 256) % 256>>

\* [0xf8u8, (v >> 8) as u8, v as u8] with v = v - 0x7f0
Tier3Bytes(d) == <<248, (d \div 256) % 256, d % 256>>

\* write_bvarint(v, w): the sink's content and the result, for a sink that
\* accepts `budget` more bytes before failing
write_bvarint(v, w, budget) ==
    IF InRange(v, Zero, U64FromInt(240))
    THEN write_all(w, <<ToInt(v) % 256>>, budget)
    ELSE IF InRange(v, U64FromInt(241), U64FromInt(2031))
    THEN write_all(w, Tier2Bytes(ToInt(v) - 240), budget)
    ELSE IF InRange(v, U64FromInt(2032), U64FromInt(67567))
    THEN write_all(w, Tier3Bytes(ToInt(v) - 2032), budget)
    ELSE Then(write_all(w, <<GeneralLead(width(v))>>, budget),
              GeneralPayload(v, width(v)))

\* write_bvarint into an empty Vec<u8>, which never fails
Encode(v) == write_bvarint(v, <<>>, 1 + 8).w

\* ------------------------------------------------------------- decoder
\* io::Read::read_exact on a byte-slice source `src` whose first p bytes are
\* consumed: n bytes, or UnexpectedEof.  How much a failed read_exact has
\* consumed is unspecified: nothing (adv = FALSE) or the rest (adv = TRUE).
read_exact(src, p, n, adv) ==
    IF Len(src) - p >= n
    THEN [ok |-> TRUE, bytes |-> SubSeq(src, p + 1, p + n), pos |-> p + n]
    ELSE [ok |-> FALSE, bytes |-> <<>>, pos |-> IF adv THEN Len(src) ELSE p]

\* a[lo..8] overwritten by read_exact (lo is the source's 0-based start)
Fill(a, lo, bytes) ==
    [i \in 1..8 |-> IF i > lo THEN bytes[i - lo] ELSE a[i]]

\* 2-byte form decoded from base 0xf1
Tier2ValueBaseOff(a) == 241 + ((a[8] - 241) * 256) + a[7]

\* 0xf0u64 + (((a[7] - 0xf1) as u64) << 8) + (a[6] as u64)
Tier2Value(a) == 240 + ((a[8] - 241) * 256) + a[7]

\* 0x7f0u64 + ((a[6] as u64) << 8) + (a[7] as u64)
Tier3Value(a) == 2032 + (a[7] * 256) + a[8]

\* general-form width read one too small
ReadWidthShort(lead) == lead - 249 + 2

\* (a[7] - 0xf9 + 3) as usize
ReadWidth(lead) == lead - 249 + 3

\* a source exhausted in mid-value accepted as if zero-padded
EofZeroFilled(r) == [kind |-> "ok", val |-> Zero, pos |-> r.pos]

\* the `?` after read_exact failing with UnexpectedEof
Eof(r) == [kind |-> "eof", val |-> Zero, pos |-> r.pos]

\* sentinel arm that also drains the payload an 8-byte form would have
InvalidDataDraining(src, p) ==
    [kind |-> "invalid", val |-> Zero, pos |-> IF Len(src) - p >= 8 THEN p + 8 ELSE Len(src)]

\* Err(io::Error::new(io::ErrorKind::InvalidData, "exceeds u64::MAX"))
InvalidData(src, p) == [kind |-> "invalid", val |-> Zero, pos |-> p]

\* read_bvarint(r) on the source `src` with p bytes already consumed: the
\* result kind, the value, and the source position afterwards
read_bvarint(src, p, adv) ==
    LET a0 == [i \in 1..8 |-> 0]
        r1 == read_exact(src, p, 1, adv)
    IN  IF ~r1.ok THEN Eof(r1)
        ELSE LET a1 == Fill(a0, 7, r1.bytes)
                 lead == a1[8]
             IN  IF lead <= 240
                 THEN [kind |-> "ok", val |-> U64FromInt(lead), pos |-> r1.pos]
                 ELSE IF lead <= 247
                 THEN LET r2 == read_exact(src, r1.pos, 1, adv)
                      IN  IF ~r2.ok THEN Eof(r2)
                          ELSE [kind |-> "ok",
                                val |-> U64FromInt(Tier2Value([a1 EXCEPT ![7] = r2.bytes[1]])),
                                pos |-> r2.pos]
                 ELSE IF lead = 248
                 THEN LET r2 == read_exact(src, r1.pos, 2, adv)
                      IN  IF ~r2.ok THEN Eof(r2)
                          ELSE [kind |-> "ok",
                                val |-> U64FromInt(Tier3Value(Fill(a1, 6, r2.bytes))),
                                pos |-> r2.pos]
                 ELSE IF lead <= 254
                 THEN LET wd == ReadWidth(lead)
                          r2 == read_exact(src, r1.pos, wd, adv)
                      IN  IF ~r2.ok THEN Eof(r2)
                          ELSE [kind |-> "ok",
                                val |-> from_be_bytes(Fill(a1, 8 - wd, r2.bytes)),
                                pos |-> r2.pos]
                 ELSE InvalidData(src, r1.pos)

\* ------------------------------------------------------ input domains
\* first value of every tier and of every general-form width, and 0 (whose
\* predecessor modulo 2^64 is u64::MAX)
Boundaries ==
    {Zero, U64FromInt(241), U64FromInt(2032), U64FromInt(67568)}
        \cup {Pow256(k) : k \in 3..7}

\* the values written in the pairwise checks: around every boundary
Values == {WrappingAdd(b, d) : b \in Boundaries, d \in (0 - Delta)..Delta}

\* the values written into a stream: the last value of a class and the
\* first of the next
StreamValues == {WrappingAdd(b, d) : b \in Boundaries, d \in {0 - 1, 0}}

\* leading bytes of arbitrary sources: both ends of every decoder class
Leads == {0, 240, 241, 247, 248, 249, 250, 251, 252, 253, 254, 255}

PayloadBytes == {0, 255}

\* arbitrary byte sources handed to the decoder
Sources ==
    {<<l>> \o p : l \in Leads,
                  p \in UNION {[1..n -> PayloadBytes] : n \in 0..MaxPayload}}

\* --------------------------------------------------------------- state
VARIABLES
    buf,      \* the Vec<u8> / byte slice: what the sink has accepted
    pos,      \* number of bytes of buf the reader has consumed
    failed,   \* a write_bvarint call returned Err
    written,  \* values of the write_bvarint calls that returned Ok
    wlens,    \* number of bytes each of them produced
    wval,     \* value of the last write_bvarint call
    wbefore,  \* buf before the last write_bvarint call
    decoded,  \* values of the read_bvarint calls that returned Ok
    rlens,    \* number of bytes each of them consumed
    rres,     \* result of the last read_bvarint call
    rsrc,     \* the unconsumed source the last read_bvarint call was given
    x, y,     \* check_order_u64's arguments
    bufx, bufy \* check_order_u64's buffers

vars == <<buf, pos, failed, written, wlens, wval, wbefore, decoded, rlens,
          rres, rsrc, x, y, bufx, bufy>>

streamVars == <<buf, pos, failed, written, wlens, wval, wbefore, decoded,
                rlens, rres, rsrc>>

None == [kind |-> "none", val |-> Zero]

InitStream ==
    /\ buf = <<>> /\ pos = 0 /\ failed = FALSE
    /\ written = <<>> /\ wlens = <<>> /\ wval = Zero /\ wbefore = <<>>
    /\ decoded = <<>> /\ rlens = <<>> /\ rres = None /\ rsrc = <<>>

InitOrder == x = Zero /\ y = Zero /\ bufx = <<>> /\ bufy = <<>>

Init == InitStream /\ InitOrder

\* write_bvarint(v, &mut buf) on a sink that fails after accepting k bytes
\* (k = the encoding's length: the sink accepts everything).  The caller
\* stops writing at the first Err.
Write(v, k) ==
    /\ ~failed
    /\ Len(written) < MaxWrites
    /\ LET res == write_bvarint(v, buf, k)
       IN  /\ buf' = res.w
           /\ failed' = ~res.ok
           /\ written' = IF res.ok THEN Append(written, v) ELSE written
           /\ wlens' = IF res.ok THEN Append(wlens, Len(res.w) - Len(buf)) ELSE wlens
    /\ wval' = v
    /\ wbefore' = buf
    /\ UNCHANGED <<pos, decoded, rlens, rres, rsrc, x, y, bufx, bufy>>

\* read_bvarint(&mut r) on the unconsumed part of buf
Read(adv) ==
    /\ LET res == read_bvarint(buf, pos, adv)
       IN  /\ pos' = res.pos
           /\ rres' = [kind |-> res.kind, val |-> res.val]
           /\ decoded' = IF res.kind = "ok" THEN Append(decoded, res.val) ELSE decoded
           /\ rlens' = IF res.kind = "ok" THEN Append(rlens, res.pos - pos) ELSE rlens
    /\ rsrc' = SubSeq(buf, pos + 1, Len(buf))
    /\ UNCHANGED <<buf, failed, written, wlens, wval, wbefore, x, y, bufx, bufy>>

WriteAny == \E v \in StreamValues : \E k \in 0..Len(Encode(v)) : Write(v, k)

ReadAny == \E adv \in BOOLEAN : Read(adv)

Next == WriteAny \/ ReadAny

Spec == Init /\ [][Next]_vars

\* check_order_u64(x, y): write_bvarint(x, &mut bufx)
WriteX ==
    /\ bufx = <<>>
    /\ bufx' = write_bvarint(x, bufx, 1 + 8).w
    /\ UNCHANGED <<streamVars, x, y, bufy>>

\* check_order_u64(x, y): write_bvarint(y, &mut bufy)
WriteY ==
    /\ bufy = <<>>
    /\ bufy' = write_bvarint(y, bufy, 1 + 8).w
    /\ UNCHANGED <<streamVars, x, y, bufx>>

InitPairs == InitStream /\ x \in Values /\ y \in Values /\ bufx = <<>> /\ bufy = <<>>

NextOrder == WriteX \/ WriteY

SpecOrder == InitPairs /\ [][NextOrder]_vars

\* read_bvarint on an arbitrary byte source
InitSource ==
    /\ buf \in Sources /\ pos = 0 /\ failed = FALSE
    /\ written = <<>> /\ wlens = <<>> /\ wval = Zero /\ wbefore = <<>>
    /\ decoded = <<>> /\ rlens = <<>> /\ rres = None /\ rsrc = <<>>
    /\ InitOrder

NextDecode == ReadAny

SpecDecode == InitSource /\ [][NextDecode]_vars

\* ------------------------------------------------------------ properties
\* s is a proper prefix of t
ProperPrefix(s, t) == Len(s) < Len(t) /\ s = SubSeq(t, 1, Len(s))

\* number of bytes the last read_bvarint call consumed
Consumed == Len(rsrc) - (Len(buf) - pos)

\* the last read_bvarint call returned Ok and left nothing of its source
FullyConsumed == rres.kind = "ok" /\ rsrc # <<>> /\ pos = Len(buf)

\* C1 - round trip: read_bvarint on exactly the buffer one write_bvarint(x)
\* filled returns Ok(x).
C1_RoundTrip ==
    (Len(written) = 1 /\ ~failed /\ rres.kind # "none" /\ rsrc = buf)
        => rres = [kind |-> "ok", val |-> written[1]]

C1_Witness ==
    /\ Len(written) = 1 /\ ~failed /\ rsrc = buf
    /\ rres = [kind |-> "ok", val |-> U64Max]

\* C2 - order preservation: the numeric comparison of x and y equals the
\* lexicographic comparison of their encodings.
C2_Order ==
    (bufx # <<>> /\ bufy # <<>>) => Cmp(x, y) = LexCmp(bufx, bufy)

C2_Witness ==
    /\ bufx # <<>> /\ bufy # <<>>
    /\ Cmp(x, y) = -1 /\ Len(bufx) # Len(bufy) /\ LexCmp(bufx, bufy) = -1

\* C3 - exact consumption: while every write has succeeded, the successful
\* reads return the written values in order, the k-th consuming what the k-th
\* write produced, and the buffer is empty after the last one.
C3_ExactConsumption ==
    ~failed =>
        /\ Len(decoded) <= Len(written)
        /\ \A k \in 1..Len(decoded) : decoded[k] = written[k] /\ rlens[k] = wlens[k]
        /\ Len(decoded) = Len(written) => pos = Len(buf)

C3_Witness ==
    /\ ~failed /\ Len(written) = MaxWrites /\ decoded = written
    /\ pos = Len(buf) /\ wlens[1] # wlens[2]

\* C4 - truncation: read_bvarint on a proper prefix of an encoding fails with
\* the end-of-input error.
C4_Truncation ==
    (rres.kind # "none" /\ \E v \in StreamValues : ProperPrefix(rsrc, Encode(v)))
        => rres.kind = "eof"

C4_Witness ==
    /\ failed /\ rres.kind = "eof" /\ Len(rsrc) >= 3
    /\ ProperPrefix(rsrc, Encode(wval))

\* C5 - sentinel: the call fails with InvalidData exactly when the leading
\* byte is 0xff, and then it has consumed that byte only.
C5_Sentinel ==
    rres.kind # "none" =>
        /\ (rres.kind = "invalid") <=> (rsrc # <<>> /\ rsrc[1] = 255)
        /\ rres.kind = "invalid" => Consumed = 1

C5_Witness == rres.kind = "invalid" /\ Len(rsrc) > 1 /\ Consumed = 1

\* C6 - length monotonicity: x <= y implies len(encode(x)) <= len(encode(y)),
\* and every encoding has 1 to 9 bytes.
C6_LengthMonotone ==
    /\ bufx # <<>> => Len(bufx) \in 1..9
    /\ (bufx # <<>> /\ bufy # <<>> /\ Cmp(x, y) <= 0) => Len(bufx) <= Len(bufy)

C6_Witness ==
    /\ bufx # <<>> /\ bufy # <<>> /\ Cmp(x, y) = -1
    /\ Len(bufx) = 5 /\ Len(bufy) = 9

\* C7 - reserved sentinel: the leading byte written is never 0xff.
C7_NeverSentinel ==
    /\ bufx # <<>> => bufx[1] \in 0..254
    /\ bufy # <<>> => bufy[1] \in 0..254

C7_Witness == x = U64Max /\ bufx # <<>> /\ bufx[1] = 254

\* C8 - wire layout of the four tiers.
C8_Layout ==
    bufx # <<>> =>
        IF Cmp(x, U64FromInt(240)) <= 0
        THEN bufx = <<ToInt(x)>>
        ELSE IF Cmp(x, U64FromInt(2031)) <= 0
        THEN LET d == ToInt(x) - 240
             IN  bufx = <<241 + (d \div 256), d % 256>> /\ bufx[1] \in 241..247
        ELSE IF Cmp(x, U64FromInt(67567)) <= 0
        THEN LET d == ToInt(x) - 2032
             IN  bufx = <<248, d \div 256, d % 256>>
        ELSE LET wd == Len(bufx) - 1
             IN  /\ wd \in 3..8
                 /\ bufx[1] = 249 - 3 + wd
                 /\ bufx[2] # 0
                 /\ from_be_bytes([i \in 1..8 |-> IF i > 8 - wd THEN bufx[1 + i - (8 - wd)] ELSE 0]) = x

C8_Witness ==
    /\ bufx # <<>> /\ bufy # <<>>
    /\ x = U64FromInt(67568) /\ bufx = <<249, 1, 7, 240>>
    /\ y = U64FromInt(2031) /\ bufy = <<247, 255>>

C10_Injective == FullyConsumed => Encode(rres.val) = rsrc

\* C10 amended - the encoding of a value decodes to it, and any other
\* accepted, fully consumed sequence decoding to that value is longer.
C10_ShortestIsEncoding ==
    FullyConsumed =>
        LET e == Encode(rres.val)
            back == read_bvarint(e, 0, FALSE)
        IN  /\ back.kind = "ok" /\ back.val = rres.val /\ back.pos = Len(e)
            /\ Len(e) <= Len(rsrc)
            /\ Len(e) = Len(rsrc) => e = rsrc

C10_Witness ==
    /\ FullyConsumed /\ rsrc = <<241, 0>>
    /\ rres.val = U64FromInt(240) /\ Encode(rres.val) = <<240>>

====
